---- MODULE Spec2Model ----
(***************************************************************************)
(* Model of scripts/sign-dmg-ed25519.py: one run of main() is a sequence   *)
(* of steps over a small file system that another process may change       *)
(* while the run is in progress.  Text and bytes are sequences of          *)
(* integers (code points, byte values).                                    *)
(***************************************************************************)
EXTENDS Integers, Sequences, FiniteSets, TLC

\* ------------------------------------------------------------------ bounds
\* Number of successive invocations of the tool that are followed.
MaxRuns == 2
\* Number of changes another process makes to the file system.
MaxEnvSteps == 1

\* ------------------------------------------------------- program constants
\* len(key_seed) != 32
KeySeedLen == 32
\* Length of an Ed25519 signature, the result of private_key.sign().
SignatureLen == 64
\* The code point of the check mark (U+2713) that starts the line
\* "... Signature Generated Successfully".
CheckMark == 10003

\* ------------------------------------------------------------------ state
VARIABLES
    argv,      \* sys.argv of the invocations
    fs,        \* the file system: path -> file
    pc,        \* the statement main() is at
    m,         \* main()'s local variables
    stdout,    \* the lines written to standard output, its buffer included
    stderr,    \* the traceback of an exception nothing caught
    exit,      \* the process's exit status, -1 while it runs
    trace,     \* the steps this run has executed, in order
    reads,     \* path -> the contents this run has read from it, in order
    sized,     \* path -> the files whose size this run has looked up, in order
    runs,      \* the invocations that have ended, in order
    envSteps,  \* changes other processes have made so far
    stdoutDev  \* what standard output is connected to

vars ==
    <<argv, fs, pc, m, stdout, stderr, exit, trace, reads, sized, runs, envSteps,
      stdoutDev>>

\* --------------------------------------------------------- text and bytes
Range(s) == {s[i] : i \in 1..Len(s)}

\* Decoding of the key file's bytes as text, as open(key_file, 'r') does under
\* a UTF-8 locale with strict error handling.  IsCont: a continuation byte.
IsCont(b) == b >= 128 /\ b <= 191

\* Number of bytes of the UTF-8 sequence that starts at bs[i], 0 when the
\* bytes at i are not a well-formed sequence.
Utf8SeqLen(bs, i) ==
    LET n == Len(bs)
        b0 == bs[i]
        b1 == IF i + 1 <= n THEN bs[i + 1] ELSE -1
        b2 == IF i + 2 <= n THEN bs[i + 2] ELSE -1
        b3 == IF i + 3 <= n THEN bs[i + 3] ELSE -1
    IN  IF b0 < 128 THEN 1
        ELSE IF b0 >= 194 /\ b0 <= 223
             THEN (IF IsCont(b1) THEN 2 ELSE 0)
        ELSE IF b0 = 224
             THEN (IF b1 >= 160 /\ b1 <= 191 /\ IsCont(b2) THEN 3 ELSE 0)
        ELSE IF b0 = 237
             THEN (IF b1 >= 128 /\ b1 <= 159 /\ IsCont(b2) THEN 3 ELSE 0)
        ELSE IF b0 >= 225 /\ b0 <= 239
             THEN (IF IsCont(b1) /\ IsCont(b2) THEN 3 ELSE 0)
        ELSE IF b0 = 240
             THEN (IF b1 >= 144 /\ b1 <= 191 /\ IsCont(b2) /\ IsCont(b3) THEN 4 ELSE 0)
        ELSE IF b0 >= 241 /\ b0 <= 243
             THEN (IF IsCont(b1) /\ IsCont(b2) /\ IsCont(b3) THEN 4 ELSE 0)
        ELSE IF b0 = 244
             THEN (IF b1 >= 128 /\ b1 <= 143 /\ IsCont(b2) /\ IsCont(b3) THEN 4 ELSE 0)
        ELSE 0

\* The code point encoded by the k bytes at bs[i].
Utf8CodePoint(bs, i, k) ==
    IF k = 1 THEN bs[i]
    ELSE IF k = 2 THEN (bs[i] % 32) * 64 + (bs[i + 1] % 64)
    ELSE IF k = 3 THEN (bs[i] % 16) * 4096 + (bs[i + 1] % 64) * 64 + (bs[i + 2] % 64)
    ELSE (bs[i] % 8) * 262144 + (bs[i + 1] % 64) * 4096
         + (bs[i + 2] % 64) * 64 + (bs[i + 3] % 64)

\* The members of a set of positions, in increasing order.
Ordered(S) ==
    [j \in 1..Cardinality(S) |-> CHOOSE i \in S : Cardinality({x \in S : x <= i}) = j]

\* [ok, text]: ok is FALSE where the read raises UnicodeDecodeError.  Lead
\* and continuation bytes are disjoint, so the sequences of a well-formed
\* text start exactly at its non-continuation bytes: each of them must start
\* a well-formed sequence, and each continuation byte must belong to one.
Utf8Decode(bs) ==
    LET starts == {i \in 1..Len(bs) : ~IsCont(bs[i])}
        ok == /\ \A i \in starts : Utf8SeqLen(bs, i) > 0
              /\ \A j \in (1..Len(bs)) \ starts :
                    \E i \in starts : i < j /\ j < i + Utf8SeqLen(bs, i)
        at == Ordered(starts)
    IN  IF ok
        THEN [ok |-> TRUE,
              text |-> [j \in 1..Len(at) |-> Utf8CodePoint(bs, at[j], Utf8SeqLen(bs, at[j]))]]
        ELSE [ok |-> FALSE, text |-> <<>>]

\* Text mode translates "\r\n" and a lone "\r" to "\n" (universal newlines):
\* a "\n" that follows a "\r" is dropped and every "\r" becomes "\n".
TranslateNewlines(t) ==
    LET at == Ordered({i \in 1..Len(t) : ~(t[i] = 10 /\ i > 1 /\ t[i - 1] = 13)})
    IN  [j \in 1..Len(at) |-> IF t[at[j]] = 13 THEN 10 ELSE t[at[j]]]

\* str.isspace() for one code point.
IsSpace(c) ==
    \/ c >= 9 /\ c <= 13
    \/ c >= 28 /\ c <= 32
    \/ c \in {133, 160, 5760, 8232, 8233, 8239, 8287, 12288}
    \/ c >= 8192 /\ c <= 8202

\* str.strip(): the text without its leading and trailing whitespace.
Strip(t) ==
    LET keep == {i \in 1..Len(t) : ~IsSpace(t[i])}
    IN  IF keep = {} THEN <<>>
        ELSE LET lo == CHOOSE i \in keep : \A j \in keep : i <= j
                 hi == CHOOSE i \in keep : \A j \in keep : j <= i
             IN  SubSeq(t, lo, hi)

\* Value of a character of the base64 alphabet, 64 for any other character.
B64Digit(c) ==
    IF c >= 65 /\ c <= 90 THEN c - 65
    ELSE IF c >= 97 /\ c <= 122 THEN c - 97 + 26
    ELSE IF c >= 48 /\ c <= 57 THEN c - 48 + 52
    ELSE IF c = 43 THEN 62
    ELSE IF c = 47 THEN 63
    ELSE 64

\* binascii.a2b_base64 in its default, non-strict mode.  Characters that are
\* neither of the alphabet nor "=" are skipped.  A "=" counts as padding only
\* when the current quad holds two or three characters, and a run of "="
\* completes the quad when, with the characters of the quad, it reaches four.
\* What follows depends on the interpreter the script runs on, which nothing
\* pins: most releases of CPython (3.9 to 3.12, 3.13.0) end the parse at the
\* first "=" that completes a quad and return the bytes decoded so far
\* (ends_at_padding); later ones (3.13.13) skip every "=" and decode the
\* characters that follow too, and accept a last quad of two or three
\* characters only when the "=" after its last character complete it.  Any
\* other incomplete quad is an error.
A2bBase64(s, ends_at_padding) ==
    LET t == SelectSeq(s, LAMBDA c : c = 61 \/ B64Digit(c) < 64)
        DataBefore(i) == Cardinality({j \in 1..(i - 1) : t[j] # 61})
        PadRun(i) == i - (CHOOSE j \in 0..(i - 1) :
                              /\ \A k \in (j + 1)..i : t[k] = 61
                              /\ j = 0 \/ t[j] # 61)
        ends == {i \in 1..Len(t) : /\ t[i] = 61
                                   /\ DataBefore(i) % 4 >= 2
                                   /\ (DataBefore(i) % 4) + PadRun(i) >= 4}
        stopped == ends_at_padding /\ ends # {}
        stop == IF stopped THEN CHOOSE i \in ends : \A j \in ends : i <= j
                ELSE Len(t) + 1
        d == SelectSeq(SubSeq(t, 1, stop - 1), LAMBDA c : c # 61)
        quad_pos == Len(d) % 4
        pads == Cardinality({i \in 1..Len(t) : \A k \in i..Len(t) : t[k] = 61})
        n == (Len(d) * 6) \div 8
        Byte(j) == LET o == 8 * (j - 1)
                       a == o \div 6 + 1
                       r == o % 6
                   IN  ((B64Digit(d[a]) * 64 + B64Digit(d[a + 1])) \div (2 ^ (4 - r))) % 256
    IN  IF stopped \/ quad_pos = 0 \/ (quad_pos >= 2 /\ quad_pos + pads >= 4)
        THEN [ok |-> TRUE, bytes |-> [j \in 1..n |-> Byte(j)]]
        ELSE [ok |-> FALSE, bytes |-> <<>>]

\* base64.b64decode(text) with a str argument: the text must be ASCII
\* (ValueError otherwise), then a2b_base64.  [ok, bytes]: ok is FALSE where
\* the call raises.
b64decode(s, ends_at_padding) ==
    IF \E i \in 1..Len(s) : s[i] > 127 THEN [ok |-> FALSE, bytes |-> <<>>]
    ELSE A2bBase64(s, ends_at_padding)

\* The base64 alphabet, by value.
B64Char(d) ==
    IF d < 26 THEN 65 + d
    ELSE IF d < 52 THEN 97 + d - 26
    ELSE IF d < 62 THEN 48 + d - 52
    ELSE IF d = 62 THEN 43
    ELSE 47

\* base64.b64encode(bytes).decode('ascii'): four characters for every three
\* bytes, the last group padded with "=".
b64encode(bs) ==
    LET n == Len(bs)
        B(i) == IF i <= n THEN bs[i] ELSE 0
        Char(j) == LET g == 3 * ((j - 1) \div 4)
                       k == (j - 1) % 4
                   IN  IF k = 0 THEN B64Char(B(g + 1) \div 4)
                       ELSE IF k = 1 THEN B64Char((B(g + 1) % 4) * 16 + B(g + 2) \div 16)
                       ELSE IF k = 2
                            THEN (IF g + 2 > n THEN 61
                                  ELSE B64Char((B(g + 2) % 16) * 4 + B(g + 3) \div 64))
                       ELSE (IF g + 3 > n THEN 61 ELSE B64Char(B(g + 3) % 64))
    IN  [j \in 1..(4 * ((n + 2) \div 3)) |-> Char(j)]

\* ---------------------------------------------------------------- signing
\* Ed25519PrivateKey.from_private_bytes(key_seed): [ok, key].  The library
\* raises ValueError for a seed that is not KeySeedLen bytes long; the key
\* object holds the seed.
from_private_bytes(seed) ==
    IF Len(seed) = KeySeedLen
    THEN [ok |-> TRUE, key |-> [seed |-> seed]]
    ELSE [ok |-> FALSE, key |-> [seed |-> <<>>]]

\* Ed25519 signatures (RFC 8032, section 5.1.6) of the messages explored
\* under the seeds explored, SignatureLen bytes each.
Ed25519Vectors ==
    {
      \* seed 01 .. 20 (hex), the empty message
      [ seed |-> <<1, 2, 3, 4, 5, 6, 7, 8, 9, 10, 11, 12, 13, 14, 15, 16,
                  17, 18, 19, 20, 21, 22, 23, 24, 25, 26, 27, 28, 29, 30, 31, 32>>,
        msg |-> <<>>,
        sig |-> <<217, 69, 43, 212, 204, 128, 188, 236, 244, 161, 136, 149, 9, 70, 70, 233,
                 26, 90, 155, 191, 27, 39, 7, 224, 83, 150, 178, 207, 103, 201, 194, 183,
                 217, 184, 71, 160, 213, 98, 66, 92, 203, 183, 16, 56, 199, 100, 159, 220,
                 191, 215, 110, 224, 232, 36, 124, 142, 201, 50, 105, 153, 182, 37, 106, 11>> ],
      \* seed 01 .. 20 (hex), hello world
      [ seed |-> <<1, 2, 3, 4, 5, 6, 7, 8, 9, 10, 11, 12, 13, 14, 15, 16,
                  17, 18, 19, 20, 21, 22, 23, 24, 25, 26, 27, 28, 29, 30, 31, 32>>,
        msg |-> <<104, 101, 108, 108, 111, 32, 119, 111, 114, 108, 100>>,
        sig |-> <<16, 242, 174, 62, 195, 93, 95, 163, 46, 212, 21, 165, 201, 106, 119, 19,
                 164, 97, 92, 0, 230, 92, 195, 182, 19, 217, 162, 10, 201, 161, 239, 249,
                 43, 57, 69, 25, 32, 184, 163, 105, 145, 80, 194, 118, 92, 132, 72, 255,
                 216, 199, 233, 149, 135, 152, 224, 21, 39, 244, 25, 162, 182, 58, 195, 14>> ],
      \* seed 01 .. 20 (hex), the byte f9
      [ seed |-> <<1, 2, 3, 4, 5, 6, 7, 8, 9, 10, 11, 12, 13, 14, 15, 16,
                  17, 18, 19, 20, 21, 22, 23, 24, 25, 26, 27, 28, 29, 30, 31, 32>>,
        msg |-> <<249>>,
        sig |-> <<122, 226, 102, 31, 75, 30, 89, 85, 124, 212, 86, 108, 176, 50, 80, 54,
                 81, 103, 119, 243, 190, 137, 181, 238, 193, 51, 18, 144, 247, 106, 26, 131,
                 172, 35, 12, 182, 94, 78, 219, 230, 242, 22, 197, 213, 177, 76, 202, 187,
                 170, 243, 124, 210, 93, 1, 218, 204, 41, 232, 95, 228, 23, 193, 63, 0>> ],
      \* seed of RFC 8032, 7.1, test 1, the empty message
      [ seed |-> <<157, 97, 177, 157, 239, 253, 90, 96, 186, 132, 74, 244, 146, 236, 44, 196,
                  68, 73, 197, 105, 123, 50, 105, 25, 112, 59, 172, 3, 28, 174, 127, 96>>,
        msg |-> <<>>,
        sig |-> <<229, 86, 67, 0, 195, 96, 172, 114, 144, 134, 226, 204, 128, 110, 130, 138,
                 132, 135, 127, 30, 184, 229, 217, 116, 216, 115, 224, 101, 34, 73, 1, 85,
                 95, 184, 130, 21, 144, 163, 59, 172, 198, 30, 57, 112, 28, 249, 180, 107,
                 210, 91, 245, 240, 89, 91, 190, 36, 101, 81, 65, 67, 142, 122, 16, 11>> ],
      \* seed of RFC 8032, 7.1, test 1, hello world
      [ seed |-> <<157, 97, 177, 157, 239, 253, 90, 96, 186, 132, 74, 244, 146, 236, 44, 196,
                  68, 73, 197, 105, 123, 50, 105, 25, 112, 59, 172, 3, 28, 174, 127, 96>>,
        msg |-> <<104, 101, 108, 108, 111, 32, 119, 111, 114, 108, 100>>,
        sig |-> <<44, 84, 130, 57, 42, 25, 126, 192, 159, 163, 55, 119, 149, 141, 58, 11,
                 228, 244, 150, 10, 248, 94, 151, 150, 164, 216, 34, 201, 94, 207, 112, 74,
                 52, 254, 211, 42, 219, 105, 154, 136, 192, 234, 135, 107, 159, 187, 23, 209,
                 219, 211, 54, 247, 84, 253, 146, 7, 191, 193, 18, 200, 154, 165, 79, 2>> ],
      \* seed of RFC 8032, 7.1, test 1, the byte f9
      [ seed |-> <<157, 97, 177, 157, 239, 253, 90, 96, 186, 132, 74, 244, 146, 236, 44, 196,
                  68, 73, 197, 105, 123, 50, 105, 25, 112, 59, 172, 3, 28, 174, 127, 96>>,
        msg |-> <<249>>,
        sig |-> <<75, 81, 188, 52, 141, 254, 207, 157, 166, 130, 32, 148, 196, 148, 182, 219,
                 192, 9, 14, 48, 174, 11, 59, 217, 85, 167, 83, 214, 52, 42, 247, 106,
                 103, 48, 140, 26, 125, 177, 65, 85, 201, 96, 175, 121, 239, 21, 187, 178,
                 122, 152, 31, 207, 166, 74, 51, 146, 24, 13, 28, 85, 202, 137, 127, 11>> ]
    }

\* private_key.sign(dmg_data): the Ed25519 signature of the message under
\* the key's seed, SignatureLen bytes.  The primitive belongs to the
\* cryptography library; its values are tabulated, and it is defined here for
\* the tabulated seeds and messages only.
Ed25519Sign(private_key, data) ==
    (CHOOSE v \in Ed25519Vectors : v.seed = private_key.seed /\ v.msg = data).sig

\* ------------------------------------------------------------ file system
\* argv[1], argv[2] and os.path.expanduser("~/.tibok_sparkle_key.pem").
DmgArg == "Tibok.dmg"
KeyArg == "custom_key.pem"
DefaultKeyFile == "~/.tibok_sparkle_key.pem"
Paths == {DmgArg, KeyArg, DefaultKeyFile}

\* A path names nothing, a directory with the st_size its file system gives
\* it, or a regular file with its permission to be read and its bytes.
Missing == [kind |-> "none", readable |-> FALSE, content |-> <<>>, st_size |-> 0]
Directory(st_size) ==
    [kind |-> "dir", readable |-> TRUE, content |-> <<>>, st_size |-> st_size]
RegularFile(bytes) ==
    [kind |-> "file", readable |-> TRUE, content |-> bytes, st_size |-> Len(bytes)]
Unreadable(bytes) ==
    [kind |-> "file", readable |-> FALSE, content |-> bytes, st_size |-> Len(bytes)]

\* os.path.isfile(path)
isfile(files, path) == files[path].kind = "file"

\* open(path).read(): the exception raised, "" when the read succeeds.
OpenError(f) ==
    IF f.kind = "none" THEN "FileNotFoundError"
    ELSE IF f.kind = "dir" THEN "IsADirectoryError"
    ELSE IF ~f.readable THEN "PermissionError"
    ELSE ""

\* os.path.getsize(path): st_size of the path as it is now; a lookup of
\* metadata, which needs no permission to read the file.  A regular file's
\* st_size is the number of its bytes, a directory's is its file system's.
getsize(f) == f.st_size

\* --------------------------------------------------------- inputs explored
\* base64 of the seed 01 02 .. 20 (hex), 44 characters.
ValidKeyText ==
    << 65, 81, 73, 68, 66, 65, 85, 71, 66, 119, 103, 74, 67, 103, 115, 77,
       68, 81, 52, 80, 69, 66, 69, 83, 69, 120, 81, 86, 70, 104, 99, 89,
       71, 82, 111, 98, 72, 66, 48, 101, 72, 121, 65, 61 >>

KeyContents ==
    { ValidKeyText \o <<10>>,                           \* key and newline
      <<32, 9>> \o ValidKeyText \o <<13, 10>>,          \* surrounding whitespace
      SubSeq(ValidKeyText, 1, 20) \o <<33, 33>>         \* "!!" inside the key
          \o SubSeq(ValidKeyText, 21, 44) \o <<10>>,
      <<110, 87, 71, 120, 110, 101, 47, 57, 87, 109, 67, 54, 104, 69, 114, 48,
         107, 117, 119, 115, 120, 69, 82, 74, 120, 87, 108, 55, 77, 109, 107, 90,
         99, 68, 117, 115, 65, 120, 121, 117, 102, 50, 65, 61>>,    \* the seed of RFC 8032, 7.1, test 1
      <<>>,                                             \* empty file
      << 65, 81, 73, 68, 66, 65, 85, 71, 66, 119, 103, 74, 67, 103, 115, 77,
         68, 81, 52, 80, 69, 65, 61, 61 >>,             \* 16 bytes
      << 65, 81, 73, 68, 66, 65, 85, 71, 66, 119, 103, 74, 67, 103, 115, 77,
         68, 81, 52, 80, 69, 66, 69, 83, 69, 120, 81, 86, 70, 104, 99, 89,
         71, 82, 111, 98, 72, 66, 48, 101, 72, 119, 61, 61 >>,   \* 31 bytes
      << 65, 81, 73, 68, 66, 65, 85, 71, 66, 119, 103, 74, 67, 103, 115, 77,
         68, 81, 52, 80, 69, 66, 69, 83, 69, 120, 81, 86, 70, 104, 99, 89,
         71, 82, 111, 98, 72, 66, 48, 101, 72, 121, 65, 104 >>,  \* 33 bytes
      ValidKeyText \o <<65>>,                           \* the key and "A"
      <<110, 111, 116, 45, 98, 97, 115, 101, 54, 52, 45, 33, 33>>, \* not-base64-!!
      <<97, 98, 99, 100, 33, 33>>,                      \* abcd!!
      <<97, 98, 99>>,                                   \* abc (no padding)
      <<195, 169>>,                                     \* e-acute, UTF-8
      <<255, 254>> }                                    \* not UTF-8

KeyFiles ==
    {Missing, Directory(4096), Unreadable(ValidKeyText)}
        \cup {RegularFile(c) : c \in KeyContents}

DmgContents ==
    { <<>>,
      <<104, 101, 108, 108, 111, 32, 119, 111, 114, 108, 100>> }  \* hello world

DmgFiles ==
    {Missing, Directory(40), Unreadable(<<0, 255>>)}
        \cup {RegularFile(c) : c \in DmgContents}

\* f.read().strip() on a key file opened as text: [ok, text], ok FALSE where
\* the read raises UnicodeDecodeError.
ReadStripped(bytes) ==
    LET decoded == Utf8Decode(bytes)
    IN  IF decoded.ok
        THEN [ok |-> TRUE, text |-> Strip(TranslateNewlines(decoded.text))]
        ELSE [ok |-> FALSE, text |-> <<>>]

\* The conversions, tabulated over the inputs explored: each value is
\* computed once and looked up by the steps below.
KeyTextOf == [c \in {f.content : f \in KeyFiles} |-> ReadStripped(c)]
KeySeedOf ==
    [t \in {KeyTextOf[c].text : c \in DOMAIN KeyTextOf}, ends_at_padding \in BOOLEAN |->
        b64decode(t, ends_at_padding)]
PrivateKeys ==
    {from_private_bytes(KeySeedOf[u].bytes).key :
        u \in {v \in DOMAIN KeySeedOf : from_private_bytes(KeySeedOf[v].bytes).ok}}
SignatureOf == [k \in PrivateKeys, d \in DmgContents |-> Ed25519Sign(k, d)]
Base64Of ==
    [g \in {SignatureOf[k, d] : k \in PrivateKeys, d \in DmgContents} |-> b64encode(g)]

Program == "sign-dmg-ed25519.py"
Argvs == { <<Program>>, <<Program, DmgArg>>, <<Program, DmgArg, KeyArg>> }

\* ------------------------------------------------------------ output lines
\* A printed line: its text as written in the source, with the values
\* substituted into it (a string, a sequence of numbers).  The text of a line
\* is ASCII but for the code points listed in wide, each of which the text
\* shows as "{}".
Line(t, s, n) == [t |-> t, s |-> s, n |-> n, wide |-> <<>>]
Text(t) == Line(t, "", <<>>)
WideText(t, code_points) == [t |-> t, s |-> "", n |-> <<>>, wide |-> code_points]

\* What standard output is connected to: something that takes what is
\* written (a terminal, a file, a pipe that is read); nothing, the descriptor
\* being closed, so that sys.stdout is None and print writes nowhere; or
\* something that cannot be written (a full device, a pipe whose reader is
\* gone), through the default buffer or unbuffered (PYTHONUNBUFFERED).
StdoutDevices == {"writable", "closed", "unwritable", "unwritable, unbuffered"}

\* The encodings of standard output explored, and the largest code point
\* each of them can encode.
StdoutEncodings == {"utf-8", "latin-1", "ascii"}
MaxCodePoint(encoding) ==
    IF encoding = "ascii" THEN 127
    ELSE IF encoding = "latin-1" THEN 255
    ELSE 1114111

\* print(line) raises UnicodeEncodeError when standard output cannot encode
\* a character of the line.
Encodes(encoding, line) ==
    \A i \in 1..Len(line.wide) : line.wide[i] <= MaxCodePoint(encoding)

\* The number of lines of a block that are printed before a print raises.
PrintedBefore(encoding, lines) ==
    LET bad == {i \in 1..Len(lines) : ~Encodes(encoding, lines[i])}
    IN  IF bad = {} THEN Len(lines)
        ELSE (CHOOSE i \in bad : \A j \in bad : i <= j) - 1
Rule == Text("==========================================")

NoLocals ==
    [ dmg_path |-> "", key_file |-> "", key_seed_b64 |-> <<>>, key_seed |-> <<>>,
      private_key |-> [seed |-> <<>>], dmg_data |-> <<>>,
      signature_bytes |-> <<>>, signature_b64 |-> <<>>, dmg_size |-> -1 ]

NoReads == [p \in Paths |-> <<>>]

\* The file a size lookup finds at the path.
Lookup(path) == sized' = [sized EXCEPT ![path] = Append(@, fs[path])]

Init ==
    /\ argv \in Argvs
    /\ fs \in [Paths -> KeyFiles \cup DmgFiles]
    /\ fs[DmgArg] \in DmgFiles
    /\ \/ fs[KeyArg] \in KeyFiles /\ fs[DefaultKeyFile] = Missing
       \/ fs[DefaultKeyFile] \in KeyFiles /\ fs[KeyArg] = Missing
    /\ pc = "args"
    /\ m = NoLocals
    /\ stdout = <<>>
    /\ stderr = <<>>
    /\ exit = -1
    /\ trace = <<>>
    /\ reads = NoReads
    /\ sized = NoReads
    /\ runs = <<>>
    /\ envSteps = 0
    /\ stdoutDev \in StdoutDevices

\* ----------------------------------------------------------------- output
UsageText ==
    << Text("Usage: sign-dmg-ed25519.py <path-to-dmg> [path-to-key-file]"),
       Text(""),
       Text("Signs a DMG file with EdDSA private key for Sparkle updates."),
       Text("Outputs the signature suitable for appcast.xml"),
       Text(""),
       Text("Arguments:"),
       Text("  <path-to-dmg>       Path to the DMG file to sign"),
       Text("  [path-to-key-file]  Path to EdDSA private key (default: ~/.tibok_sparkle_key.pem)") >>

KeyGuidance ==
    << Text(""),
       Text("To generate the key file, run:"),
       Text("  arch -arm64 ./Frameworks/generate_keys --account ed25519 -x ~/.tibok_sparkle_key.pem"),
       Text("") >>

Banner(dmg_path, key_file) ==
    << Rule, Text("Signing DMG with EdDSA Key (Ed25519)"), Rule,
       Line("DMG: {dmg_path}", dmg_path, <<>>),
       Line("Key file: {key_file}", key_file, <<>>),
       Text(""),
       Text("Signing DMG...") >>

InstallGuidance ==
    << Text(""), Text("Install it with:"), Text("  pip3 install cryptography") >>

DownloadUrl == "https://github.com/sturdy-barnacle/md-editor/releases/download/v1.0.2/Tibok-1.0.2.dmg"

\* The lines printed once the signature and the size are known: the
\* signature on a line of its own, the size, and the enclosure element with
\* its edSignature and length attributes.  The third line starts with the
\* check mark.
ResultLines(sig_line, size_line, enc_sig, enc_len) ==
    << Text(""), Rule, WideText("{} Signature Generated Successfully", <<CheckMark>>),
       Rule, Text(""),
       Text("EdDSA Signature (for appcast.xml):"),
       Text(""),
       Line("{signature_b64}", "", sig_line),
       Text(""),
       Text("File Information:"),
       Line("  Size: {dmg_size} bytes", "", <<size_line>>),
       Line("  URL: {url}", DownloadUrl, <<>>),
       Text(""), Rule, Text("Update appcast.xml with this signature:"), Rule,
       Text(""),
       Text("Replace the enclosure element with:"),
       Text(""),
       Text("    <enclosure"),
       Line("        url=\"{url}\"", DownloadUrl, <<>>),
       Line("        sparkle:edSignature=\"{signature_b64}\"", "", enc_sig),
       Line("        length=\"{dmg_size}\"", "", <<enc_len>>),
       Text("        type=\"application/octet-stream\""),
       Text("    />"),
       Text("") >>

\* A result whose length attribute is looked up again while printing.
SuccessBlockRecomputed(signature_b64, dmg_size) ==
    ResultLines(signature_b64, dmg_size, signature_b64, getsize(fs[m.dmg_path]))

\* Both places print the same two variables.
SuccessBlock(signature_b64, dmg_size) ==
    ResultLines(signature_b64, dmg_size, signature_b64, dmg_size)

\* ------------------------------------------------------------------ steps
Running == exit = -1

\* Standard output after print(line) for each of the lines.
Printed(lines) == IF stdoutDev = "closed" THEN stdout ELSE stdout \o lines

\* The first of the prints raises OSError: the write is not buffered and the
\* device does not take it.
PrintRaises(lines) == stdoutDev = "unwritable, unbuffered" /\ lines # <<>>

\* The process ends with main()'s status, having written buffer to standard
\* output and err to standard error.  The interpreter flushes standard output
\* on its way out: where the flush fails what was buffered is lost, the
\* failure is reported on standard error and the status is 120.
Exits(status, buffer, err) ==
    /\ pc' = "exit"
    /\ IF stdoutDev = "unwritable" /\ buffer # <<>>
       THEN /\ exit' = 120
            /\ stdout' = <<>>
            /\ stderr' = Append(err, "OSError")
       ELSE /\ exit' = status
            /\ stdout' = buffer
            /\ stderr' = err

\* An exception nothing catches: the interpreter prints the traceback to
\* standard error and main()'s status is 1.
Raise(exc) == Exits(1, stdout, Append(stderr, exc))

\* print(...); sys.exit(1)
Fail(lines) ==
    IF PrintRaises(lines) THEN Raise("OSError")
    ELSE Exits(1, Printed(lines), stderr)

Goto(next) ==
    /\ pc' = next
    /\ UNCHANGED <<stdout, stderr, exit>>

Did(step) == trace' = Append(trace, step)

\* The usage check and the two paths.
ParseArgs ==
    /\ Running /\ pc = "args"
    /\ Did("args")
    /\ IF Len(argv) < 2
       THEN Fail(UsageText) /\ UNCHANGED m
       ELSE /\ m' = [m EXCEPT !.dmg_path = argv[2],
                              !.key_file = IF Len(argv) > 2 THEN argv[3]
                                           ELSE DefaultKeyFile]
            /\ Goto("check_dmg")
    /\ UNCHANGED <<argv, fs, reads, sized, runs, envSteps, stdoutDev>>

\* Verify DMG exists
CheckDmg ==
    /\ Running /\ pc = "check_dmg"
    /\ Did("check_dmg")
    /\ IF ~isfile(fs, m.dmg_path)
       THEN Fail(<< Line("Error: DMG file not found: {dmg_path}", m.dmg_path, <<>>) >>)
       ELSE Goto("check_key")
    /\ UNCHANGED <<argv, fs, m, reads, sized, runs, envSteps, stdoutDev>>

\* Verify key file exists, then the banner.
CheckKey ==
    /\ Running /\ pc = "check_key"
    /\ Did("check_key")
    /\ IF ~isfile(fs, m.key_file)
       THEN Fail(<< Line("Error: Private key file not found: {key_file}", m.key_file, <<>>) >>
                 \o KeyGuidance)
       ELSE IF PrintRaises(Banner(m.dmg_path, m.key_file))
            THEN Raise("OSError")
            ELSE /\ stdout' = Printed(Banner(m.dmg_path, m.key_file))
                 /\ pc' = "import"
                 /\ UNCHANGED <<stderr, exit>>
    /\ UNCHANGED <<argv, fs, m, reads, sized, runs, envSteps, stdoutDev>>

\* Import cryptography library: installed or not.
ImportCryptography ==
    /\ Running /\ pc = "import"
    /\ Did("import")
    /\ \E installed \in BOOLEAN :
          IF ~installed
          THEN Fail(<< Text("Error: cryptography library not found") >> \o InstallGuidance)
          ELSE Goto("read_key")
    /\ UNCHANGED <<argv, fs, m, reads, sized, runs, envSteps, stdoutDev>>

\* with open(key_file, 'r') as f: key_seed_b64 = f.read().strip()
ReadKey ==
    /\ Running /\ pc = "read_key"
    /\ Did("read_key")
    /\ LET f == fs[m.key_file]
           decoded == KeyTextOf[f.content]
       IN  IF OpenError(f) # ""
           THEN Raise(OpenError(f)) /\ UNCHANGED <<m, reads>>
           ELSE /\ reads' = [reads EXCEPT ![m.key_file] = Append(@, f.content)]
                /\ IF ~decoded.ok
                   THEN Raise("UnicodeDecodeError") /\ UNCHANGED m
                   ELSE /\ m' = [m EXCEPT !.key_seed_b64 = decoded.text]
                        /\ Goto("decode_key")
    /\ UNCHANGED <<sized, argv, fs, runs, envSteps, stdoutDev>>

\* key_seed = base64.b64decode(key_seed_b64), any exception caught, on an
\* interpreter of either kind.
DecodeKey ==
    /\ Running /\ pc = "decode_key"
    /\ Did("decode_key")
    /\ \E ends_at_padding \in BOOLEAN :
       LET r == KeySeedOf[m.key_seed_b64, ends_at_padding]
       IN  IF ~r.ok
           THEN /\ Fail(<< Line("Error: Failed to decode private key: {e}",
                                IF \E i \in 1..Len(m.key_seed_b64) : m.key_seed_b64[i] > 127
                                THEN "ValueError" ELSE "binascii.Error", <<>>) >>)
                /\ UNCHANGED m
           ELSE /\ m' = [m EXCEPT !.key_seed = r.bytes]
                /\ Goto("check_len")
    /\ UNCHANGED <<argv, fs, reads, sized, runs, envSteps, stdoutDev>>

\* if len(key_seed) != 32
CheckKeyLength ==
    /\ Running /\ pc = "check_len"
    /\ Did("check_len")
    /\ IF Len(m.key_seed) # KeySeedLen
       THEN Fail(<< Line("Error: Invalid key seed length: {len(key_seed)} (expected 32 bytes)",
                         "", <<Len(m.key_seed)>>) >>)
       ELSE Goto("make_key")
    /\ UNCHANGED <<argv, fs, m, reads, sized, runs, envSteps, stdoutDev>>

\* Create Ed25519 private key from seed, any exception caught: the library
\* rejects a seed of another length (ValueError), and a backend without
\* Ed25519 rejects every seed (UnsupportedAlgorithm).
CreatePrivateKey ==
    /\ Running /\ pc = "make_key"
    /\ Did("make_key")
    /\ LET made == from_private_bytes(m.key_seed)
       IN  \E supported \in BOOLEAN :
              IF ~supported \/ ~made.ok
              THEN Fail(<< Line("Error: Failed to create private key: {e}",
                                IF supported THEN "ValueError" ELSE "UnsupportedAlgorithm",
                                <<>>) >>)
                   /\ UNCHANGED m
              ELSE /\ m' = [m EXCEPT !.private_key = made.key]
                   /\ Goto("read_dmg")
    /\ UNCHANGED <<argv, fs, reads, sized, runs, envSteps, stdoutDev>>

\* with open(dmg_path, 'rb') as f: dmg_data = f.read(), any exception caught
ReadDmg ==
    /\ Running /\ pc = "read_dmg"
    /\ Did("read_dmg")
    /\ LET f == fs[m.dmg_path]
       IN  IF OpenError(f) # ""
           THEN /\ Fail(<< Line("Error: Failed to read DMG: {e}", OpenError(f), <<>>) >>)
                /\ UNCHANGED <<m, reads>>
           ELSE /\ reads' = [reads EXCEPT ![m.dmg_path] = Append(@, f.content)]
                /\ m' = [m EXCEPT !.dmg_data = f.content]
                /\ Goto("sign")
    /\ UNCHANGED <<sized, argv, fs, runs, envSteps, stdoutDev>>

\* signature_bytes = private_key.sign(dmg_data), any exception caught (the
\* library may fail, e.g. for want of memory); then the base64 encoding.
SignDmg ==
    /\ Running /\ pc = "sign"
    /\ Did("sign")
    /\ \E failed \in BOOLEAN :
          IF failed
          THEN Fail(<< Line("Error: Failed to sign DMG: {e}", "MemoryError", <<>>) >>)
               /\ UNCHANGED m
          ELSE /\ m' = [m EXCEPT
                          !.signature_bytes = SignatureOf[m.private_key, m.dmg_data],
                          !.signature_b64 = Base64Of[SignatureOf[m.private_key, m.dmg_data]]]
               /\ Goto("getsize")
    /\ UNCHANGED <<argv, fs, reads, sized, runs, envSteps, stdoutDev>>

\* Faulty variant of the size step: the file is read again and its bytes
\* are counted.
GetSizeByReading ==
    /\ Running /\ pc = "getsize"
    /\ Lookup(m.dmg_path)
    /\ Did("getsize")
    /\ LET f == fs[m.dmg_path]
       IN  IF OpenError(f) # ""
           THEN Raise(OpenError(f)) /\ UNCHANGED <<m, reads>>
           ELSE /\ reads' = [reads EXCEPT ![m.dmg_path] = Append(@, f.content)]
                /\ m' = [m EXCEPT !.dmg_size = Len(f.content)]
                /\ Goto("print")
    /\ UNCHANGED <<argv, fs, runs, envSteps, stdoutDev>>

\* dmg_size = os.path.getsize(dmg_path), outside any try
GetSize ==
    /\ Running /\ pc = "getsize"
    /\ Lookup(m.dmg_path)
    /\ Did("getsize")
    /\ LET f == fs[m.dmg_path]
       IN  IF f.kind = "none"
           THEN Raise("FileNotFoundError") /\ UNCHANGED m
           ELSE /\ m' = [m EXCEPT !.dmg_size = getsize(f)]
                /\ Goto("print")
    /\ UNCHANGED <<argv, fs, reads, runs, envSteps, stdoutDev>>

\* The result is printed line by line and main() returns: status 0.  The
\* prints are outside any try: on a standard output that cannot encode the
\* check mark the third print raises UnicodeEncodeError after the first two
\* lines.  The encoding is the environment's; every line printed before this
\* step is ASCII, so it is first consulted here, and not at all where
\* sys.stdout is None.
PrintResult ==
    /\ Running /\ pc = "print"
    /\ Did("print")
    /\ \E encoding \in StdoutEncodings :
          LET block == SuccessBlock(m.signature_b64, m.dmg_size)
              n == IF stdoutDev = "closed" THEN Len(block)
                   ELSE PrintedBefore(encoding, block)
          IN  IF PrintRaises(block) THEN Raise("OSError")
              ELSE IF n = Len(block) THEN Exits(0, Printed(block), stderr)
              ELSE Exits(1, Printed(SubSeq(block, 1, n)),
                         Append(stderr, "UnicodeEncodeError"))
    /\ UNCHANGED <<argv, fs, m, reads, sized, runs, envSteps, stdoutDev>>

\* One step of main().
Tool ==
    \/ ParseArgs
    \/ CheckDmg
    \/ CheckKey
    \/ ImportCryptography
    \/ ReadKey
    \/ DecodeKey
    \/ CheckKeyLength
    \/ CreatePrivateKey
    \/ ReadDmg
    \/ SignDmg
    \/ GetSize
    \/ PrintResult

\* The tool is invoked again with the same arguments.
Restart ==
    /\ ~Running
    /\ Len(runs) + 1 < MaxRuns
    /\ runs' = Append(runs, [m |-> m, reads |-> reads, sized |-> sized, stdout |-> stdout,
                             stderr |-> stderr, exit |-> exit])
    /\ pc' = "args"
    /\ m' = NoLocals
    /\ stdout' = <<>>
    /\ stderr' = <<>>
    /\ exit' = -1
    /\ trace' = <<>>
    /\ reads' = NoReads
    /\ sized' = NoReads
    /\ UNCHANGED <<argv, fs, envSteps, stdoutDev>>

\* Another process rewrites the artifact while the tool runs.
EnvWrite(c) ==
    /\ Running /\ pc # "args"
    /\ envSteps < MaxEnvSteps
    /\ fs[DmgArg] # RegularFile(c)
    /\ fs' = [fs EXCEPT ![DmgArg] = RegularFile(c)]
    /\ envSteps' = envSteps + 1
    /\ UNCHANGED <<argv, pc, m, stdout, stderr, exit, trace, reads, sized, runs, stdoutDev>>

\* Another process removes the artifact or the key file while the tool runs.
EnvUnlink(p) ==
    /\ Running /\ pc # "args"
    /\ envSteps < MaxEnvSteps
    /\ fs[p].kind = "file"
    /\ fs' = [fs EXCEPT ![p] = Missing]
    /\ envSteps' = envSteps + 1
    /\ UNCHANGED <<argv, pc, m, stdout, stderr, exit, trace, reads, sized, runs, stdoutDev>>

Env ==
    \/ \E c \in DmgContents : EnvWrite(c)
    \/ \E p \in {m.dmg_path, m.key_file} : EnvUnlink(p)

Next ==
    \/ Tool
    \/ Restart
    \/ Env

Spec == Init /\ [][Next]_vars

\* main() is a sequence of blocking calls: a run that can take a step takes it.
FairSpec == Spec /\ WF_vars(Tool)

\* ----------------------------------------------------------------- claims
Last(q) == q[Len(q)]
Lines(out, t) == SelectSeq(out, LAMBDA l : l.t = t)
Has(out, t) == Lines(out, t) # <<>>
Count(q, x) == Len(SelectSeq(q, LAMBDA y : y = x))
IsPrefix(a, b) == Len(a) <= Len(b) /\ a = SubSeq(b, 1, Len(a))

SigT == "{signature_b64}"
SizeT == "  Size: {dmg_size} bytes"
EncOpenT == "    <enclosure"
EncSigT == "        sparkle:edSignature=\"{signature_b64}\""
EncLenT == "        length=\"{dmg_size}\""
EnclosureTs ==
    { EncOpenT, "        url=\"{url}\"", EncSigT, EncLenT,
      "        type=\"application/octet-stream\"", "    />" }

MissingArtifactT == "Error: DMG file not found: {dmg_path}"
MissingKeyT == "Error: Private key file not found: {key_file}"
KeyDecodeErrorT == "Error: Failed to decode private key: {e}"
InvalidKeyLengthT == "Error: Invalid key seed length: {len(key_seed)} (expected 32 bytes)"
KeyConstructionErrorT == "Error: Failed to create private key: {e}"
ArtifactReadErrorT == "Error: Failed to read DMG: {e}"
SigningErrorT == "Error: Failed to sign DMG: {e}"
ErrorTs ==
    { MissingArtifactT, MissingKeyT, KeyDecodeErrorT, InvalidKeyLengthT,
      KeyConstructionErrorT, ArtifactReadErrorT, SigningErrorT,
      "Error: cryptography library not found" }

ErrorLines(out) == SelectSeq(out, LAMBDA l : l.t \in ErrorTs)
SignaturePrinted == Has(stdout, SigT)
EnclosurePrinted == \A t \in EnclosureTs : Has(stdout, t)
AnyResultLine == \E i \in 1..Len(stdout) : stdout[i].t \in EnclosureTs \cup {SigT, SizeT}
RunFailed == ErrorLines(stdout) # <<>> \/ stderr # <<>> \/ stdout = UsageText

\* C1: the exit status is 0 exactly when the signature line and the
\* enclosure element have been printed; a run in which a step failed has
\* status 1, and a run that has not ended with status 0 has printed no
\* signature, no size and no line of the enclosure element.
C1_ExitStatus ==
    /\ exit \in {-1, 0, 1}
    /\ (pc = "exit") <=> (exit # -1)
    /\ (exit = 0) <=> (SignaturePrinted /\ EnclosurePrinted)
    /\ (exit # 0) => ~AnyResultLine
    /\ RunFailed => exit = 1

\* C2: a run that ended at one of the listed steps (artifact or key
\* missing, key read or decode, key length, key construction, artifact read,
\* signing) with status 1 printed exactly one "Error:" line and left no
\* exception uncaught.
C2_EveryErrorCaught ==
    (pc = "exit" /\ exit = 1
       /\ Last(trace) \in {"check_dmg", "check_key", "read_key", "decode_key",
                           "check_len", "make_key", "read_dmg", "sign"})
    => (stderr = <<>> /\ Len(ErrorLines(stdout)) = 1)

\* C3: in a successful run that printed its result the edSignature attribute is the base64 text of
\* the signature the one sign step returned and is the text of the signature
\* line; the length attribute is the number on the Size line, the result of
\* the one size lookup.
C3_EnclosureOfThisRun ==
    (exit = 0 /\ stdout # <<>>) =>
        LET sig == Lines(stdout, SigT)
            size == Lines(stdout, SizeT)
            encSig == Lines(stdout, EncSigT)
            encLen == Lines(stdout, EncLenT)
        IN  /\ Len(sig) = 1 /\ Len(size) = 1 /\ Len(encSig) = 1 /\ Len(encLen) = 1
            /\ Count(trace, "sign") = 1 /\ Count(trace, "getsize") = 1
            /\ m.signature_bytes = Ed25519Sign(m.private_key, m.dmg_data)
            /\ encSig[1].n = b64encode(m.signature_bytes)
            /\ encSig[1].n = sig[1].n
            /\ Len(sized[m.dmg_path]) = 1
            /\ size[1].n = << Len(sized[m.dmg_path][1].content) >>
            /\ encLen[1].n = size[1].n

\* A second successful invocation whose artifact has another size than the
\* first one's.
C3_Witness ==
    /\ exit = 0 /\ EnclosurePrinted
    /\ Len(runs) = 1 /\ runs[1].exit = 0 /\ runs[1].m.dmg_size # m.dmg_size

\* C4: a decoded seed whose length is not 32 makes the run fail at the
\* length check with the InvalidKeyLength line, which reports that length, and
\* status 1; no private key is built, the artifact is not read and nothing is
\* signed.
C4_WrongKeyLength ==
    (Len(m.key_seed) # KeySeedLen /\ (pc = "check_len" \/ Count(trace, "check_len") > 0))
    => /\ m.private_key = NoLocals.private_key
       /\ m.signature_bytes = <<>>
       /\ reads[m.dmg_path] = <<>>
       /\ Count(trace, "make_key") = 0 /\ Count(trace, "read_dmg") = 0
       /\ Count(trace, "sign") = 0
       /\ ~AnyResultLine
       /\ Count(trace, "check_len") > 0 =>
             /\ pc = "exit" /\ exit = 1 /\ stderr = <<>>
             /\ stdout # <<>>
             /\ Last(stdout) = Line(InvalidKeyLengthT, "", <<Len(m.key_seed)>>)
             /\ Len(ErrorLines(stdout)) = 1

\* Base64 as RFC 4648 defines it: characters of the alphabet only, in groups
\* of four, the last group padded with at most two "=".
StrictBase64(t) ==
    /\ Len(t) % 4 = 0
    /\ \E k \in 0..2 :
          /\ k <= Len(t)
          /\ \A i \in 1..(Len(t) - k) : B64Digit(t[i]) < 64
          /\ \A i \in (Len(t) - k + 1)..Len(t) : t[i] = 61

\* C5: a key whose stripped text is not valid base64 makes the run fail at
\* the decode step with the KeyDecodeError line and status 1, before the
\* length check.
C5_MalformedKeyRejected ==
    (Count(trace, "decode_key") > 0 /\ ~StrictBase64(m.key_seed_b64))
    => /\ pc = "exit" /\ exit = 1
       /\ Last(trace) = "decode_key"
       /\ stdout # <<>>
       /\ Last(stdout).t = KeyDecodeErrorT

\* C6: the artifact is checked first and the key second, before any read.
\* A step of the artifact check that finds no regular file ends the run with
\* the MissingArtifact line alone and status 1, whatever the key path holds; a
\* step of the key check that finds no regular file ends it with the
\* MissingKey line, the guidance and status 1.
C6_ExistenceChecks ==
    [][ /\ (Running /\ pc = "check_dmg" /\ pc' # pc /\ fs[m.dmg_path].kind # "file")
            => /\ exit' = 1 /\ pc' = "exit" /\ stderr' = <<>>
               /\ stdout' = << Line(MissingArtifactT, m.dmg_path, <<>>) >>
               /\ reads' = NoReads
        /\ (Running /\ pc = "check_key" /\ pc' # pc /\ fs[m.key_file].kind # "file")
            => /\ exit' = 1 /\ pc' = "exit" /\ stderr' = <<>>
               /\ stdout' = << Line(MissingKeyT, m.key_file, <<>>),
                               Text(""), Text("To generate the key file, run:"),
                               Text("  arch -arm64 ./Frameworks/generate_keys --account ed25519 -x ~/.tibok_sparkle_key.pem"),
                               Text("") >>
               /\ reads' = NoReads
        /\ (pc' = "check_key" /\ pc # "check_key")
            => (pc = "check_dmg" /\ fs[m.dmg_path].kind = "file")
        /\ (pc' = "import" /\ pc # "import")
            => (pc = "check_key" /\ fs[m.key_file].kind = "file")
        /\ (reads' # reads /\ reads' # NoReads)
            => (Count(trace, "check_dmg") = 1 /\ Count(trace, "check_key") = 1)
      ]_vars

\* The invocations so far, the current one included.
ThisRun ==
    [m |-> m, reads |-> reads, sized |-> sized, stdout |-> stdout,
     stderr |-> stderr, exit |-> exit]
AllRuns == Range(runs) \cup {ThisRun}
KeyRead(r) == r.reads[r.m.key_file]
DataRead(r) == r.reads[r.m.dmg_path]
Enclosure(out) == SelectSeq(out, LAMBDA l : l.t \in EnclosureTs)

\* C7: two successful runs that read the same key file content and the same
\* artifact bytes print the same signature line and the same enclosure
\* element.
C7_Deterministic ==
    \A a \in AllRuns : \A b \in AllRuns :
        (a.exit = 0 /\ b.exit = 0 /\ KeyRead(a) = KeyRead(b) /\ DataRead(a) = DataRead(b))
        => /\ Lines(a.stdout, SigT) = Lines(b.stdout, SigT)
           /\ Enclosure(a.stdout) = Enclosure(b.stdout)

\* C8: no step of main() changes any file, and a run reads nothing but its
\* key file and its artifact, each at most once.
C8_Frame ==
    [][ (Running /\ pc' # pc)
        => /\ fs' = fs
           /\ \A p \in Paths :
                 /\ Len(reads'[p]) <= 1
                 /\ reads'[p] # <<>> => p \in {m'.dmg_path, m'.key_file}
      ]_vars

\* A successful run: both files read once, and still what they were.
C8_Witness ==
    /\ exit = 0
    /\ Len(reads[m.key_file]) = 1 /\ Len(reads[m.dmg_path]) = 1
    /\ fs[m.key_file].content = reads[m.key_file][1]
    /\ fs[m.dmg_path].content = reads[m.dmg_path][1]

\* C9: in a successful run the number on the Size line and in the length
\* attribute is the number of bytes that were signed.
C9_SizeOfSignedBytes ==
    exit = 0 =>
        \A l \in Range(Lines(stdout, SizeT)) \cup Range(Lines(stdout, EncLenT)) :
            l.n = << Len(m.dmg_data) >>

ClaimedOrder ==
    << "check_dmg", "check_key", "read_key", "decode_key", "check_len",
       "make_key", "read_dmg", "sign", "getsize", "print" >>
Claimed(q) == SelectSeq(q, LAMBDA x : x \in Range(ClaimedOrder))

\* C10: the steps a run has executed are an initial part of the order
\* artifact check, key check, key read, key decode, length check, key
\* construction, artifact read, sign, size lookup, print, each at most once; a
\* step that reports an error or raises ends the run, after which the run
\* executes nothing; and every run ends, with status 0 or 1.
C10_Sequential ==
    /\ [](/\ IsPrefix(Claimed(trace), ClaimedOrder)
          /\ pc = "exit" => exit \in {0, 1})
    /\ [][ /\ (~Running /\ trace' # trace) => (trace' = <<>> /\ Len(runs') = Len(runs) + 1)
           /\ (Running /\ (ErrorLines(stdout') # ErrorLines(stdout) \/ stderr' # stderr))
                 => (exit' = 1 /\ pc' = "exit")
           /\ (Running /\ pc' # pc) => (trace' = Append(trace, pc) /\ Len(runs') = Len(runs))
           /\ (Running /\ trace' # trace) => pc' # pc
         ]_vars
    /\ (Running ~> ~Running)

====
